---- MODULE Spec2Model ----
(***************************************************************************)
(* Model of the flight-simulation sequencer of Alia_4 v1.2.0               *)
(* (src/Alia_4_v9.ino, flightPattern and the state it shares with the      *)
(* rest of the sketch).                                                    *)
(*                                                                         *)
(* Time is the value of millis().  One call of flightPattern is one        *)
(* atomic step; the environment advances the clock between calls and may   *)
(* set the abort flag gotBreak.                                            *)
(***************************************************************************)
EXTENDS Integers, Naturals, Sequences, FiniteSets, TLC

VARIABLES
    clock,            \* value millis() returns
    gotBreak,         \* global abort flag
    phase,            \* static int phase
    phaseStart,       \* static unsigned long phaseStart
    lastPropUpdate,   \* static unsigned long lastPropUpdate
    lastTailUpdate,   \* static unsigned long lastTailUpdate
    propDelay,        \* static int propDelay
    tailDelay,        \* static int tailDelay
    prop1_angle, prop2_angle, prop3_angle, prop4_angle,
    tail_pos,
    frame,            \* pixels of the strip that are lit (all lit pixels carry normColor)
    shows,            \* strip.show() calls made by the last flightPattern call
    committed,        \* the frames strip.show() sent out during the last iteration
                      \* of the control loop, in order (one entry stands for all
                      \* the frames of a blocking pattern)
    returned,         \* "true"/"false": value returned by the call that made this state;
                      \* "other": the loop iteration that made this state ran another
                      \* pattern; "eased": calculatePropDelay alone was applied;
                      \* "none" once time has passed and the next call is due
    irregular,        \* irregular clock increments used so far
    lastCall,         \* `now` read by the last flightPattern call (-1 before the first)
    breaks,           \* times the abort flag has been set so far
    abortedAt,        \* `now` read by the last flightPattern call that ran the
                      \* gotBreak reset (-1 before the first)
    mode,             \* global int mode
    navLights,        \* levels of the nose, port and starboard outputs (TRUE = HIGH)
    blinkState,       \* global bool blinkState
    blinkNow,         \* global unsigned long now: time of the last blink toggle
    lightsArg,        \* argument of the lights() call made by the last
                      \* flightPattern call ("none" if it made no such call)
    autoCycleSubMode, \* global int autoCycleSubMode
    patternComplete,  \* global bool patternComplete
    lastModeChange    \* global unsigned long lastModeChange

vars == << clock, gotBreak, phase, phaseStart, lastPropUpdate, lastTailUpdate,
           propDelay, tailDelay, prop1_angle, prop2_angle, prop3_angle,
           prop4_angle, tail_pos, frame, shows, returned, irregular, breaks, lastCall,
           abortedAt, mode, committed, navLights, blinkState, blinkNow, lightsArg,
           autoCycleSubMode, patternComplete, lastModeChange >>

----------------------------------------------------------------------------
(* Bounds of the model *)

\* the clock is not advanced past this value
MaxClock == 37000
\* number of clock increments other than the regular 1000 ms loop period
\* (and the zero-length call) a behaviour may use
MaxIrregular == 1
\* number of times the abort flag is set in a behaviour
MaxBreaks == 1
\* the run of the fixed-step specification stops at this clock value
StopAt == 36000
\* the clock of the auto-cycle specification is not advanced past this value
MaxLoopClock == 120000

\* clock increments the environment may choose between two calls
ClockSteps == {40, 1000, 7000}
\* milliseconds that may pass between the two millis() reads of one call
CallTimes == {0, 2}
\* the increments that count against MaxIrregular
IsIrregular(d) == d \notin {0, 1000}

----------------------------------------------------------------------------
(* Program constants *)

minPropDelay == 10
maxPropDelay == 500
minTailDelay == 50
maxTailDelay == 200
verySlowTailDelay == 400
conventionalTailDelay == 30

liftTime == 5000
transitionInHoldTime == 3000
transitionInTime == 8000
conventionalTime == 5000
transitionOutSpinUpTime == 5000
transitionOutHoldTime == 3000
transitionOutSpinDownTime == 5000
transitionOutLandingTime == 13000
groundPauseTime == 5000

PROP1_START == 0
PROP2_START == 9
PROP3_START == 18
PROP4_START == 27
TAIL_START == 36
TAIL_END == 40

blinkTime == 1500

NUM_PATTERNS == 4
AUTO_CYCLE_DURATION == 10000
LED_COUNT == 41
waitTime == 50
\* delay(1000) at the end of setup()
setupDelay == 1000
\* delay(100) after a pattern switch
switchDelay == 100

\* unsigned long arithmetic wraps at this modulus; TLC's integers stop at
\* 2^31 - 1, which stands in for 2^32 (every value it is compared with is
\* at most 13000)
ULongModulus == 2147483647

----------------------------------------------------------------------------
(* Helpers *)

Min(a, b) == IF a <= b THEN a ELSE b

\* a - b on unsigned long
ULSub(a, b) == IF a >= b THEN a - b ELSE ULongModulus - (b - a)

\* ceiling of n / d for n >= 0, d > 0
CeilDiv(n, d) == (n + d - 1) \div d

(* calculatePropDelay(progress) with progress = num / den in [0, 1].       *)
(* The code computes maxPropDelay - progress^2 * 490 in float and converts *)
(* to int, which truncates towards zero: 500 - x truncated is              *)
(* 500 - ceiling(x).  490 and den^2 are both divided by 10 to stay inside  *)
(* 32-bit integers; the quotient is unchanged.                             *)
(* (calculatePropDelay_FullRange is the variant that scales the curve by   *)
(* maxPropDelay instead of maxPropDelay - minPropDelay.)                   *)
calculatePropDelay_FullRange(num, den) ==
    maxPropDelay -
      CeilDiv(num * num * (maxPropDelay \div 10), (den * den) \div 10)
\* variant: the subtraction of minPropDelay binds to the product
calculatePropDelay_Precedence(num, den) ==
    maxPropDelay + minPropDelay -
      CeilDiv(num * num * (maxPropDelay \div 10), (den * den) \div 10)

\* variant: the curve is progress instead of progress squared
calculatePropDelay_Linear(num, den) ==
    maxPropDelay - CeilDiv(num * (maxPropDelay - minPropDelay), den)

calculatePropDelay(num, den) ==
    maxPropDelay -
      CeilDiv(num * num * ((maxPropDelay - minPropDelay) \div 10),
              (den * den) \div 10)

\* prop angle steps

\* variant: the counter-clockwise props step forwards
CCW_Forward(a) == (a + 1) % 9
CCW(a) == IF a > 0 THEN a - 1 ELSE 8

\* variant: the clockwise props wrap one cell late
CW_WrapsAt10(a) == (a + 1) % 10
CW(a) == (a + 1) % 9

\* tail step
TailNext(p) == (p + 1) % (TAIL_END - TAIL_START + 1)

----------------------------------------------------------------------------
(* The static state of flightPattern as one record *)

SeqState ==
    [ phase |-> phase, phaseStart |-> phaseStart,
      lastPropUpdate |-> lastPropUpdate, lastTailUpdate |-> lastTailUpdate,
      propDelay |-> propDelay, tailDelay |-> tailDelay,
      prop1_angle |-> prop1_angle, prop2_angle |-> prop2_angle,
      prop3_angle |-> prop3_angle, prop4_angle |-> prop4_angle,
      tail_pos |-> tail_pos, complete |-> FALSE ]

\* variant: prop 4 is left out of the update
UpdateProps_Prop4Lags(s, now) ==
    IF ULSub(now, s.lastPropUpdate) >= s.propDelay
    THEN [s EXCEPT !.lastPropUpdate = now,
                   !.prop1_angle = CCW(@),
                   !.prop2_angle = CW(@),
                   !.prop3_angle = CW(@)]
    ELSE s

\* variant: a late call makes up for a missed step with a second one
UpdateProps_CatchUp(s, now) ==
    IF ULSub(now, s.lastPropUpdate) >= 2 * s.propDelay
    THEN [s EXCEPT !.lastPropUpdate = now,
                   !.prop1_angle = CCW(CCW(@)),
                   !.prop2_angle = CW(CW(@)),
                   !.prop3_angle = CW(CW(@)),
                   !.prop4_angle = CCW(CCW(@))]
    ELSE IF ULSub(now, s.lastPropUpdate) >= s.propDelay
    THEN [s EXCEPT !.lastPropUpdate = now,
                   !.prop1_angle = CCW(@),
                   !.prop2_angle = CW(@),
                   !.prop3_angle = CW(@),
                   !.prop4_angle = CCW(@)]
    ELSE s

\* "Update props": the four props share lastPropUpdate and propDelay
UpdateProps(s, now) ==
    IF ULSub(now, s.lastPropUpdate) >= s.propDelay
    THEN [s EXCEPT !.lastPropUpdate = now,
                   !.prop1_angle = CCW(@),
                   !.prop2_angle = CW(@),
                   !.prop3_angle = CW(@),
                   !.prop4_angle = CCW(@)]
    ELSE s

\* "Update tail" with a fixed period
UpdateTail(s, now, period) ==
    IF ULSub(now, s.lastTailUpdate) >= period
    THEN [s EXCEPT !.lastTailUpdate = now, !.tail_pos = TailNext(@)]
    ELSE s

\* variant: every tail advance slows the tail by 2 ms
DecelerateTail_StepsBy2(s, now) ==
    IF ULSub(now, s.lastTailUpdate) >= s.tailDelay
    THEN [s EXCEPT !.lastTailUpdate = now,
                   !.tailDelay = Min(@ + 2, maxTailDelay),
                   !.tail_pos = TailNext(@)]
    ELSE s

\* "Decelerate tail throughout": phase 3 gates on tailDelay and adds 1 to it
DecelerateTail(s, now) ==
    IF ULSub(now, s.lastTailUpdate) >= s.tailDelay
    THEN [s EXCEPT !.lastTailUpdate = now,
                   !.tailDelay = Min(@ + 1, maxTailDelay),
                   !.tail_pos = TailNext(@)]
    ELSE s

\* variant: CONVENTIONAL gates the tail with minTailDelay like TRANSITION_IN
TailPeriod_ConventionalAtMin(s) ==
    CASE s.phase = 0 -> verySlowTailDelay
      [] s.phase = 1 -> minTailDelay
      [] s.phase = 2 -> minTailDelay
      [] s.phase = 3 -> s.tailDelay
      [] OTHER       -> verySlowTailDelay

\* the period that gates the tail in each phase
TailPeriod(s) ==
    CASE s.phase = 0 -> verySlowTailDelay
      [] s.phase = 1 -> minTailDelay
      [] s.phase = 2 -> conventionalTailDelay
      [] s.phase = 3 -> s.tailDelay
      [] OTHER       -> verySlowTailDelay

\* variant: LIFT eases by the remaining instead of the elapsed time
LiftPropDelay_Reversed(elapsed) ==
    calculatePropDelay(liftTime - Min(elapsed, liftTime), liftTime)

\* variant: the LIFT ramp is spread over the length of TRANSITION_IN
LiftPropDelay_SlowRamp(elapsed) ==
    calculatePropDelay(Min(elapsed, liftTime), transitionInTime)

\* propDelay of a LIFT tick: liftProgress clamped to 1.0
LiftPropDelay(elapsed) ==
    calculatePropDelay(Min(elapsed, liftTime), liftTime)

\* variant: the deceleration is measured from the start of the phase
TransitionInPropDelay_NoHoldOffset(elapsed) ==
    IF elapsed > transitionInHoldTime
    THEN LET span == transitionInTime - transitionInHoldTime
             d    == Min(elapsed, span)
         IN  calculatePropDelay(span - d, span)
    ELSE minPropDelay

\* propDelay of a TRANSITION_IN tick
TransitionInPropDelay(elapsed) ==
    IF elapsed > transitionInHoldTime
    THEN LET span == transitionInTime - transitionInHoldTime
             d    == Min(elapsed - transitionInHoldTime, span)
         IN  calculatePropDelay(span - d, span)
    ELSE minPropDelay

\* variant: the landing spin-down eases by the progress itself
TransitionOutPropDelay_SpinDownReversed(elapsed) ==
    IF elapsed < transitionOutSpinUpTime
    THEN calculatePropDelay(elapsed, transitionOutSpinUpTime)
    ELSE IF elapsed < transitionOutSpinUpTime + transitionOutHoldTime
    THEN minPropDelay
    ELSE LET d == Min(elapsed - transitionOutSpinUpTime - transitionOutHoldTime,
                      transitionOutSpinDownTime)
         IN  calculatePropDelay(d, transitionOutSpinDownTime)

\* propDelay of a TRANSITION_OUT/LANDING tick
TransitionOutPropDelay(elapsed) ==
    IF elapsed < transitionOutSpinUpTime
    THEN calculatePropDelay(elapsed, transitionOutSpinUpTime)
    ELSE IF elapsed < transitionOutSpinUpTime + transitionOutHoldTime
    THEN minPropDelay
    ELSE LET d == Min(elapsed - transitionOutSpinUpTime - transitionOutHoldTime,
                      transitionOutSpinDownTime)
         IN  calculatePropDelay(transitionOutSpinDownTime - d,
                                transitionOutSpinDownTime)

\* the exit tests of the five phases

\* variant: LIFT is left only after its duration has been exceeded
LiftOver_Strict(elapsed) == elapsed > liftTime
LiftOver(elapsed) == elapsed >= liftTime

TransitionInOver(elapsed) == elapsed >= transitionInTime

\* variant: CONVENTIONAL has no exit
ConventionalOver_Never(elapsed) == elapsed < 0
ConventionalOver(elapsed) == elapsed >= conventionalTime
TransitionOutOver(elapsed) == elapsed >= transitionOutLandingTime

\* variant: GROUND_PAUSE ends after the hold time instead of its own duration
GroundPauseOver_Short(elapsed) == elapsed >= transitionInHoldTime
GroundPauseOver(elapsed) == elapsed >= groundPauseTime

\* PHASE 0: LIFT
PhaseLift(s, now) ==
    LET elapsed == ULSub(now, s.phaseStart)
        s1 == [s EXCEPT !.propDelay = LiftPropDelay(elapsed)]
        s2 == UpdateProps(s1, now)
        s3 == UpdateTail(s2, now, TailPeriod(s))
    IN  IF LiftOver(elapsed)
        THEN [s3 EXCEPT !.phase = 1, !.phaseStart = now,
                        !.propDelay = minPropDelay]
        ELSE s3

\* PHASE 1: TRANSITION_IN
PhaseTransitionIn(s, now) ==
    LET elapsed == ULSub(now, s.phaseStart)
        s1 == [s EXCEPT !.propDelay = TransitionInPropDelay(elapsed)]
        s2 == UpdateProps(s1, now)
        s3 == UpdateTail(s2, now, TailPeriod(s))
    IN  IF TransitionInOver(elapsed)
        THEN [s3 EXCEPT !.phase = 2, !.phaseStart = now,
                        !.propDelay = maxPropDelay]
        ELSE s3

\* variant: CONVENTIONAL keeps updating the props at their slowest period
PhaseConventional_PropsIdle(s, now) ==
    LET elapsed == ULSub(now, s.phaseStart)
        s0 == UpdateProps(s, now)
        s1 == UpdateTail(s0, now, TailPeriod(s))
    IN  IF ConventionalOver(elapsed)
        THEN [s1 EXCEPT !.phase = 3, !.phaseStart = now,
                        !.tailDelay = minTailDelay]
        ELSE s1

\* variant: leaves CONVENTIONAL for GROUND_PAUSE, skipping the landing
PhaseConventional_SkipsLanding(s, now) ==
    LET elapsed == ULSub(now, s.phaseStart)
        s1 == UpdateTail(s, now, TailPeriod(s))
    IN  IF ConventionalOver(elapsed)
        THEN [s1 EXCEPT !.phase = 4, !.phaseStart = now,
                        !.tailDelay = minTailDelay]
        ELSE s1

\* PHASE 2: CONVENTIONAL
PhaseConventional(s, now) ==
    LET elapsed == ULSub(now, s.phaseStart)
        s1 == UpdateTail(s, now, TailPeriod(s))
    IN  IF ConventionalOver(elapsed)
        THEN [s1 EXCEPT !.phase = 3, !.phaseStart = now,
                        !.tailDelay = minTailDelay]
        ELSE s1

\* PHASE 3: TRANSITION_OUT + LANDING
PhaseTransitionOut(s, now) ==
    LET elapsed == ULSub(now, s.phaseStart)
        s1 == DecelerateTail(s, now)
        s2 == [s1 EXCEPT !.propDelay = TransitionOutPropDelay(elapsed)]
        s3 == UpdateProps(s2, now)
    IN  IF TransitionOutOver(elapsed)
        THEN [s3 EXCEPT !.phase = 4, !.phaseStart = now,
                        !.propDelay = maxPropDelay]
        ELSE s3

\* variant: the sequence restarts without signalling completion
CompleteSequence_NoSignal(s, now) ==
    [s EXCEPT !.phase = 0, !.phaseStart = now,
              !.propDelay = maxPropDelay, !.tailDelay = maxTailDelay]

\* the assignments of "Complete sequence after ground pause"
CompleteSequence(s, now) ==
    [s EXCEPT !.phase = 0, !.phaseStart = now,
              !.propDelay = maxPropDelay, !.tailDelay = maxTailDelay,
              !.complete = TRUE]

\* variant: GROUND_PAUSE keeps updating the props at their slowest period
PhaseGroundPause_PropsTurn(s, now) ==
    LET elapsed == ULSub(now, s.phaseStart)
        s0 == UpdateProps(s, now)
        s1 == UpdateTail(s0, now, TailPeriod(s))
    IN  IF GroundPauseOver(elapsed)
        THEN CompleteSequence(s1, now)
        ELSE s1

\* PHASE 4: GROUND_PAUSE
PhaseGroundPause(s, now) ==
    LET elapsed == ULSub(now, s.phaseStart)
        s1 == UpdateTail(s, now, TailPeriod(s))
    IN  IF GroundPauseOver(elapsed)
        THEN CompleteSequence(s1, now)
        ELSE s1

\* the if / else-if chain over phase: exactly one branch runs per call
PhaseLogic(s, now) ==
    CASE s.phase = 0 -> PhaseLift(s, now)
      [] s.phase = 1 -> PhaseTransitionIn(s, now)
      [] s.phase = 2 -> PhaseConventional(s, now)
      [] s.phase = 3 -> PhaseTransitionOut(s, now)
      [] s.phase = 4 -> PhaseGroundPause(s, now)
      [] OTHER       -> s

\* variant: a prop period equal to maxPropDelay still counts as spinning
PropsSpinning_AtMost(s) == (s.phase # 2) /\ (s.propDelay <= maxPropDelay)

\* bool propsSpinning
PropsSpinning(s) == (s.phase # 2) /\ (s.propDelay < maxPropDelay)

\* variant: a spinning prop shows one blade cell only
RenderPixels_SingleBlade(s) ==
    ( IF PropsSpinning(s)
      THEN { PROP1_START + (s.prop1_angle % 9),
             PROP2_START + (s.prop2_angle % 9),
             PROP3_START + (s.prop3_angle % 9),
             PROP4_START + (s.prop4_angle % 9) }
      ELSE { PROP1_START + 0, PROP1_START + 4,
             PROP2_START + 8, PROP2_START + 4,
             PROP3_START + 0, PROP3_START + 4,
             PROP4_START + 8, PROP4_START + 4 } )
    \cup { TAIL_START + s.tail_pos }

\* variant: the parked cells are offsets 0 and 4 on all four props
RenderPixels_SymmetricParking(s) ==
    ( IF PropsSpinning(s)
      THEN { PROP1_START + (s.prop1_angle % 9),
             PROP1_START + ((s.prop1_angle + 4) % 9),
             PROP2_START + (s.prop2_angle % 9),
             PROP2_START + ((s.prop2_angle + 4) % 9),
             PROP3_START + (s.prop3_angle % 9),
             PROP3_START + ((s.prop3_angle + 4) % 9),
             PROP4_START + (s.prop4_angle % 9),
             PROP4_START + ((s.prop4_angle + 4) % 9) }
      ELSE { PROP1_START + 0, PROP1_START + 4,
             PROP2_START + 0, PROP2_START + 4,
             PROP3_START + 0, PROP3_START + 4,
             PROP4_START + 0, PROP4_START + 4 } )
    \cup { TAIL_START + s.tail_pos }

\* variant: the second spinning cell is angle + 4 without the wrap at 9
RenderPixels_NoWrap(s) ==
    ( IF PropsSpinning(s)
      THEN { PROP1_START + (s.prop1_angle % 9),
             PROP1_START + (s.prop1_angle + 4),
             PROP2_START + (s.prop2_angle % 9),
             PROP2_START + (s.prop2_angle + 4),
             PROP3_START + (s.prop3_angle % 9),
             PROP3_START + (s.prop3_angle + 4),
             PROP4_START + (s.prop4_angle % 9),
             PROP4_START + (s.prop4_angle + 4) }
      ELSE { PROP1_START + 0, PROP1_START + 4,
             PROP2_START + 8, PROP2_START + 4,
             PROP3_START + 0, PROP3_START + 4,
             PROP4_START + 8, PROP4_START + 4 } )
    \cup { TAIL_START + s.tail_pos }

\* the pixels setPixelColor is called on (strip.clear() precedes them)
RenderPixels(s) ==
    ( IF PropsSpinning(s)
      THEN { PROP1_START + (s.prop1_angle % 9),
             PROP1_START + ((s.prop1_angle + 4) % 9),
             PROP2_START + (s.prop2_angle % 9),
             PROP2_START + ((s.prop2_angle + 4) % 9),
             PROP3_START + (s.prop3_angle % 9),
             PROP3_START + ((s.prop3_angle + 4) % 9),
             PROP4_START + (s.prop4_angle % 9),
             PROP4_START + ((s.prop4_angle + 4) % 9) }
      ELSE { PROP1_START + 0, PROP1_START + 4,
             PROP2_START + 8, PROP2_START + 4,
             PROP3_START + 0, PROP3_START + 4,
             PROP4_START + 8, PROP4_START + 4 } )
    \cup { TAIL_START + s.tail_pos }

\* variant: the reset zeroes the rotors but keeps the phase and its timer
AbortReset_KeepsPhase(s, t) ==
    [s EXCEPT !.propDelay = maxPropDelay, !.tailDelay = maxTailDelay,
              !.prop1_angle = 0, !.prop2_angle = 0,
              !.prop3_angle = 0, !.prop4_angle = 0,
              !.tail_pos = 0]

\* the body of "if (gotBreak)": t is the value of the second millis() read
AbortReset(s, t) ==
    [s EXCEPT !.phase = 0, !.phaseStart = t,
              !.propDelay = maxPropDelay, !.tailDelay = maxTailDelay,
              !.prop1_angle = 0, !.prop2_angle = 0,
              !.prop3_angle = 0, !.prop4_angle = 0,
              !.tail_pos = 0]

\* whether the call reads gotBreak: the completing call returns before it
ChecksBreak(s1) == ~s1.complete

\* the value of gotBreak after a call that read it as TRUE
BreakAfterReset == FALSE

----------------------------------------------------------------------------
(* Navigation lights *)

\* the state lights() works on
LightState ==
    [ nav |-> navLights, blinkState |-> blinkState, blinkNow |-> blinkNow ]

\* the three outputs at one level
AllLights(level) == [ nose |-> level, port |-> level, star |-> level ]

\* variant: the constant mode drives the nose output only
lights_NoseOnly(L, shouldBlink, t) ==
    IF shouldBlink
    THEN IF ULSub(t, L.blinkNow) > blinkTime
         THEN [ nav |-> AllLights(~L.blinkState),
                blinkState |-> ~L.blinkState,
                blinkNow |-> t ]
         ELSE L
    ELSE [ L EXCEPT !.nav.nose = TRUE ]

\* lights(bool shouldBlink) called when millis() is t
lights(L, shouldBlink, t) ==
    IF shouldBlink
    THEN IF ULSub(t, L.blinkNow) > blinkTime
         THEN [ nav |-> AllLights(~L.blinkState),
                blinkState |-> ~L.blinkState,
                blinkNow |-> t ]
         ELSE L
    ELSE [ L EXCEPT !.nav = AllLights(TRUE) ]

\* variant: flightPattern asks for blinking lights
FlightLightsBlink_Blinking == TRUE

\* the argument flightPattern passes to lights()
FlightLightsBlink == FALSE

----------------------------------------------------------------------------
(* Actions *)

\* variant: the sketch starts with the abort flag set
InitState_BreakPending ==
    /\ gotBreak = TRUE
    /\ phase = 0
    /\ phaseStart = 0
    /\ lastPropUpdate = 0
    /\ lastTailUpdate = 0
    /\ propDelay = 500
    /\ tailDelay = 200
    /\ prop1_angle = 0 /\ prop2_angle = 0 /\ prop3_angle = 0 /\ prop4_angle = 0
    /\ tail_pos = 0
    /\ frame = {}
    /\ shows = 0
    /\ returned = "none"
    /\ irregular = 0
    /\ breaks = 0
    /\ lastCall = -1
    /\ abortedAt = -1
    /\ mode = 0
    /\ committed = << >>
    /\ navLights = [ nose |-> TRUE, port |-> FALSE, star |-> FALSE ]
    /\ blinkState = TRUE
    /\ blinkNow = 0
    /\ lightsArg = "none"
    /\ autoCycleSubMode = 0
    /\ patternComplete = FALSE
    /\ lastModeChange = 0

InitState ==
    /\ gotBreak = FALSE
    /\ phase = 0
    /\ phaseStart = 0
    /\ lastPropUpdate = 0
    /\ lastTailUpdate = 0
    /\ propDelay = 500
    /\ tailDelay = 200
    /\ prop1_angle = 0 /\ prop2_angle = 0 /\ prop3_angle = 0 /\ prop4_angle = 0
    /\ tail_pos = 0
    /\ frame = {}
    /\ shows = 0
    /\ returned = "none"
    /\ irregular = 0
    /\ breaks = 0
    /\ lastCall = -1
    /\ abortedAt = -1
    /\ mode = 0
    /\ committed = << >>
    /\ navLights = [ nose |-> TRUE, port |-> FALSE, star |-> FALSE ]
    /\ blinkState = TRUE
    /\ blinkNow = 0
    /\ lightsArg = "none"
    /\ autoCycleSubMode = 0
    /\ patternComplete = FALSE
    /\ lastModeChange = 0

\* the sequencer is first called when millis() is 0
Init == clock = 0 /\ InitState

\* variant: the gotBreak reset runs before the frame is rendered
flightPatternAt_ResetsFirst(now, render, f0) ==
    LET s1  == PhaseLogic(SeqState, now)
        brk == ChecksBreak(s1) /\ gotBreak
        s2  == IF brk THEN AbortReset(s1, now + render) ELSE s1
        L   == IF s1.complete THEN LightState
               ELSE lights(LightState, FlightLightsBlink, now + render)
    IN  /\ phase' = s2.phase
        /\ phaseStart' = s2.phaseStart
        /\ lastPropUpdate' = s2.lastPropUpdate
        /\ lastTailUpdate' = s2.lastTailUpdate
        /\ propDelay' = s2.propDelay
        /\ tailDelay' = s2.tailDelay
        /\ prop1_angle' = s2.prop1_angle
        /\ prop2_angle' = s2.prop2_angle
        /\ prop3_angle' = s2.prop3_angle
        /\ prop4_angle' = s2.prop4_angle
        /\ tail_pos' = s2.tail_pos
        /\ frame' = IF s1.complete THEN f0 ELSE RenderPixels(s2)
        /\ shows' = IF s1.complete THEN 0 ELSE 1
        /\ navLights' = L.nav
        /\ blinkState' = L.blinkState
        /\ blinkNow' = L.blinkNow
        /\ lightsArg' = IF s1.complete THEN "none"
                        ELSE IF FlightLightsBlink THEN "true" ELSE "false"
        /\ gotBreak' = IF brk THEN BreakAfterReset ELSE gotBreak
        /\ lastCall' = now
        /\ abortedAt' = IF brk THEN now ELSE abortedAt
        /\ returned' = IF s1.complete THEN "true" ELSE "false"
        /\ clock' = IF s1.complete THEN now ELSE now + render

\* one call of flightPattern() that reads millis() as now and finds the
\* pixels f0 lit; render is the time the call takes up to the second
\* millis() read
flightPatternAt(now, render, f0) ==
    LET s1  == PhaseLogic(SeqState, now)
        brk == ChecksBreak(s1) /\ gotBreak
        s2  == IF brk THEN AbortReset(s1, now + render) ELSE s1
        L   == IF s1.complete THEN LightState
               ELSE lights(LightState, FlightLightsBlink, now + render)
    IN  /\ phase' = s2.phase
        /\ phaseStart' = s2.phaseStart
        /\ lastPropUpdate' = s2.lastPropUpdate
        /\ lastTailUpdate' = s2.lastTailUpdate
        /\ propDelay' = s2.propDelay
        /\ tailDelay' = s2.tailDelay
        /\ prop1_angle' = s2.prop1_angle
        /\ prop2_angle' = s2.prop2_angle
        /\ prop3_angle' = s2.prop3_angle
        /\ prop4_angle' = s2.prop4_angle
        /\ tail_pos' = s2.tail_pos
        /\ frame' = IF s1.complete THEN f0 ELSE RenderPixels(s1)
        /\ shows' = IF s1.complete THEN 0 ELSE 1
        /\ navLights' = L.nav
        /\ blinkState' = L.blinkState
        /\ blinkNow' = L.blinkNow
        /\ lightsArg' = IF s1.complete THEN "none"
                        ELSE IF FlightLightsBlink THEN "true" ELSE "false"
        /\ gotBreak' = IF brk THEN BreakAfterReset ELSE gotBreak
        /\ lastCall' = now
        /\ abortedAt' = IF brk THEN now ELSE abortedAt
        /\ returned' = IF s1.complete THEN "true" ELSE "false"
        /\ clock' = IF s1.complete THEN now ELSE now + render

\* one call of flightPattern() at the current value of millis()
flightPattern(render) == flightPatternAt(clock, render, frame)

\* the scheduler stays on FLIGHT and records what the call returned
StaysOnFlight ==
    /\ patternComplete' = (returned' = "true")
    /\ committed' = IF shows' = 1 THEN << frame' >> ELSE << >>
    /\ UNCHANGED << autoCycleSubMode, lastModeChange, mode >>

SchedulerUnchanged ==
    UNCHANGED << autoCycleSubMode, patternComplete, lastModeChange, mode >>

\* one iteration of the control loop calls flightPattern
Tick ==
    \E render \in CallTimes :
        /\ returned = "none"
        /\ IsIrregular(render) => irregular < MaxIrregular
        /\ clock + render <= MaxClock
        /\ flightPattern(render)
        /\ StaysOnFlight
        /\ irregular' = IF IsIrregular(render) THEN irregular + 1 ELSE irregular
        /\ UNCHANGED breaks

StaticsUnchanged ==
    UNCHANGED << phase, phaseStart, lastPropUpdate, lastTailUpdate, propDelay,
                 tailDelay, prop1_angle, prop2_angle, prop3_angle, prop4_angle,
                 tail_pos, frame, shows, lastCall, abortedAt, committed,
                 navLights, blinkState, blinkNow, lightsArg >>

\* the clock moves on by step until the next call
Pass(step) ==
    /\ returned # "none"
    /\ clock' = clock + step
    /\ returned' = "none"
    /\ UNCHANGED << gotBreak, breaks >>
    /\ StaticsUnchanged
    /\ SchedulerUnchanged

\* time passes between two calls
Advance ==
    \E step \in ClockSteps :
        /\ IsIrregular(step) => irregular < MaxIrregular
        /\ clock + step <= MaxClock
        /\ Pass(step)
        /\ irregular' = IF IsIrregular(step) THEN irregular + 1 ELSE irregular

\* the abort flag is set from outside the sequencer, between two calls
SetBreak ==
    /\ returned = "none"
    /\ ~gotBreak
    /\ breaks < MaxBreaks
    /\ gotBreak' = TRUE
    /\ breaks' = breaks + 1
    /\ UNCHANGED << clock, irregular, returned >>
    /\ StaticsUnchanged
    /\ SchedulerUnchanged

Next == Tick \/ Advance \/ SetBreak

Spec == Init /\ [][Next]_vars

----------------------------------------------------------------------------
(* The fixed-step run: the clock starts at 0, every call is followed by a  *)
(* 10 ms advance, the abort flag is never set, and the run stops at StopAt *)

TickFixed ==
    /\ returned = "none"
    /\ flightPattern(0)
    /\ StaysOnFlight
    /\ UNCHANGED << irregular, breaks >>

AdvanceFixed ==
    /\ clock + 10 <= StopAt
    /\ Pass(10)
    /\ UNCHANGED irregular

NextFixed == TickFixed \/ AdvanceFixed

SpecFixed == Init /\ [][NextFixed]_vars

----------------------------------------------------------------------------
(* The run with a clock that may jump backwards: calls 1000 ms apart, and  *)
(* between two calls millis() may return a smaller value than before       *)

\* amounts by which millis() may fall back between two calls
BackSteps == {500}

AdvanceRegular ==
    /\ clock + 1000 <= MaxClock
    /\ Pass(1000)
    /\ UNCHANGED irregular

\* millis() returns less at the next call than at the last one
StepBack ==
    \E d \in BackSteps :
        /\ irregular < MaxIrregular
        /\ clock - d >= 0
        /\ Pass(0 - d)
        /\ irregular' = irregular + 1

NextSkew == TickFixed \/ AdvanceRegular \/ StepBack

SpecSkew == Init /\ [][NextSkew]_vars

----------------------------------------------------------------------------
(* The blocking patterns of the auto-cycle.  Each returns the record of    *)
(* what it leaves behind: the lit pixels, the navigation lights, gotBreak  *)
(* and the value of millis() when it returns.                              *)

\* lights() called n times, wait ms apart, the first time when millis() is t.
\* A call that does not toggle leaves everything as it is, so the calls up
\* to the next one later than blinkTime after the last toggle are skipped
\* together.  (The arguments of the next round are bound as set elements,
\* which has them computed once.)
RECURSIVE BlinkLoop(_, _, _, _)
BlinkLoop(L, t, n, wait) ==
    IF n = 0 THEN L
    ELSE IF ULSub(t, L.blinkNow) > blinkTime
    THEN CHOOSE r \in { BlinkLoop(L1, t1, n - 1, wait) :
                            L1 \in { lights(L, TRUE, t) }, t1 \in { t + wait } } :
             TRUE
    ELSE LET k == CeilDiv(L.blinkNow + blinkTime + 1 - t, wait)
         IN  IF k >= n THEN L
             ELSE CHOOSE r \in { BlinkLoop(L, t1, n1, wait) :
                                     t1 \in { t + k * wait }, n1 \in { n - k } } :
                      TRUE

\* a loop of n passes, each showing a frame, calling lights(), testing
\* gotBreak and then waiting wait ms; brk is gotBreak on entry, clears
\* tells whether the pattern resets gotBreak when it stops on it
BlockingFrames(L, t, brk, n, wait, clears, pixels) ==
    IF brk
    THEN [ frame |-> pixels, L |-> lights(L, TRUE, t),
           gotBreak |-> ~clears, end |-> t ]
    ELSE [ frame |-> pixels, L |-> BlinkLoop(L, t, n, wait),
           gotBreak |-> FALSE, end |-> t + n * wait ]

\* rainbow(wait): 5 * 65536 / 256 passes over the whole strip
rainbow(L, t, brk, wait) ==
    BlockingFrames(L, t, brk, (5 * 65536) \div 256, wait, TRUE,
                   0 .. LED_COUNT - 1)

\* RunningLights(r, g, b, WaveDelay): LED_COUNT * 2 passes; it leaves
\* gotBreak set when it stops on it
RunningLights(L, t, brk, WaveDelay) ==
    BlockingFrames(L, t, brk, LED_COUNT * 2, WaveDelay, FALSE,
                   0 .. LED_COUNT - 1)

\* theaterChaseRainbow(wait): 30 * 3 passes, every third pixel lit
theaterChaseRainbow(L, t, brk, wait) ==
    BlockingFrames(L, t, brk, 30 * 3, wait, TRUE,
                   { c \in 0 .. LED_COUNT - 1 : c % 3 = IF brk THEN 0 ELSE 2 })

\* switch (autoCycleSubMode), cases 1 to 3; no case runs for other values
RunPattern(m, L, t, brk, f0) ==
    CASE m = 1 -> rainbow(L, t, brk, waitTime \div 5)
      [] m = 2 -> RunningLights(L, t, brk, 50)
      [] m = 3 -> theaterChaseRainbow(L, t, brk, waitTime)
      [] OTHER -> [ frame |-> f0, L |-> L, gotBreak |-> brk, end |-> t ]

----------------------------------------------------------------------------
(* The auto-cycle: loop() from power-up.  setup() ends with delay(1000),   *)
(* so the first iteration runs when millis() is setupDelay.  One iteration *)
(* of loop() is one step.  A blocking pattern takes the time of its delay  *)
(* calls; the iterations that return at once are sampled LoopSteps ms      *)
(* apart.                                                                  *)

InitLoop == clock = setupDelay /\ InitState

\* ms between two modelled iterations that call flightPattern
LoopSteps == {1000}

\* values of millis() at which the abort flag may be set while FLIGHT runs
BreakTimes == { 9000 * k : k \in 1..13 }

\* variant: the sub-mode wraps one step late
NextSubMode_WrapsLate(m) == IF m + 1 > NUM_PATTERNS THEN 0 ELSE m + 1

\* autoCycleSubMode++ with the wrap at NUM_PATTERNS
NextSubMode(m) == IF m + 1 >= NUM_PATTERNS THEN 0 ELSE m + 1

\* variant: the timer also ends FLIGHT
ShouldAdvance_TimerOnFlight(t0) ==
    \/ autoCycleSubMode = 0 /\ patternComplete
    \/ ULSub(t0, lastModeChange) >= AUTO_CYCLE_DURATION

\* "Check if it's time to advance to next pattern"
ShouldAdvance(t0) ==
    IF autoCycleSubMode = 0
    THEN patternComplete
    ELSE ULSub(t0, lastModeChange) >= AUTO_CYCLE_DURATION

\* variant: the switch sends the frame out again without clearing it
loop_SwitchKeepsFrame ==
    LET t0  == clock
        adv == ShouldAdvance(t0)
        m   == IF adv THEN NextSubMode(autoCycleSubMode) ELSE autoCycleSubMode
        t1  == IF adv THEN t0 + switchDelay ELSE t0
        f0  == frame
    IN  /\ returned = "none"
        /\ clock <= MaxLoopClock
        /\ autoCycleSubMode' = m
        /\ lastModeChange' = IF adv THEN t0 ELSE lastModeChange
        /\ IF m = 0
           THEN /\ flightPatternAt(t1, 0, f0)
                /\ patternComplete' = (returned' = "true")
           ELSE LET r == RunPattern(m, LightState, t1, gotBreak, f0)
                IN  /\ patternComplete' =
                          IF autoCycleSubMode = 0 /\ patternComplete
                          THEN FALSE ELSE patternComplete
                    /\ frame' = r.frame
                    /\ navLights' = r.L.nav
                    /\ blinkState' = r.L.blinkState
                    /\ blinkNow' = r.L.blinkNow
                    /\ gotBreak' = r.gotBreak
                    /\ clock' = r.end
                    /\ returned' = "other"
                    /\ UNCHANGED << phase, phaseStart, lastPropUpdate,
                                    lastTailUpdate, propDelay, tailDelay,
                                    prop1_angle, prop2_angle, prop3_angle,
                                    prop4_angle, tail_pos, shows, lastCall,
                                    abortedAt, lightsArg >>
        /\ committed' = (IF adv THEN << frame >> ELSE << >>) \o
                        (IF m = 0 /\ shows' = 0 THEN << >> ELSE << frame' >>)
        /\ UNCHANGED << irregular, breaks, mode >>

\* one iteration of loop()
loop ==
    LET t0  == clock
        adv == ShouldAdvance(t0)
        m   == IF adv THEN NextSubMode(autoCycleSubMode) ELSE autoCycleSubMode
        t1  == IF adv THEN t0 + switchDelay ELSE t0
        f0  == IF adv THEN {} ELSE frame
    IN  /\ returned = "none"
        /\ clock <= MaxLoopClock
        /\ autoCycleSubMode' = m
        /\ lastModeChange' = IF adv THEN t0 ELSE lastModeChange
        /\ IF m = 0
           THEN /\ flightPatternAt(t1, 0, f0)
                /\ patternComplete' = (returned' = "true")
           ELSE LET r == RunPattern(m, LightState, t1, gotBreak, f0)
                IN  /\ patternComplete' =
                          IF autoCycleSubMode = 0 /\ patternComplete
                          THEN FALSE ELSE patternComplete
                    /\ frame' = r.frame
                    /\ navLights' = r.L.nav
                    /\ blinkState' = r.L.blinkState
                    /\ blinkNow' = r.L.blinkNow
                    /\ gotBreak' = r.gotBreak
                    /\ clock' = r.end
                    /\ returned' = "other"
                    /\ UNCHANGED << phase, phaseStart, lastPropUpdate,
                                    lastTailUpdate, propDelay, tailDelay,
                                    prop1_angle, prop2_angle, prop3_angle,
                                    prop4_angle, tail_pos, shows, lastCall,
                                    abortedAt, lightsArg >>
        /\ committed' = (IF adv THEN << {} >> ELSE << >>) \o
                        (IF m = 0 /\ shows' = 0 THEN << >> ELSE << frame' >>)
        /\ UNCHANGED << irregular, breaks, mode >>

\* loop() is entered again: at once after a blocking pattern has run, and
\* LoopSteps ms later after an iteration that returned at once (a
\* flightPattern call, or RunningLights stopped by a gotBreak it leaves set)
AdvanceLoop ==
    /\ \E step \in (IF returned = "other" /\ ~gotBreak THEN {0} ELSE LoopSteps) :
           /\ clock + step <= MaxLoopClock
           /\ Pass(step)
    /\ UNCHANGED irregular

\* the abort flag is set before an iteration that runs a blocking pattern,
\* or at one of BreakTimes while FLIGHT runs
SetBreakLoop ==
    /\ autoCycleSubMode # 0 \/ clock \in BreakTimes
    /\ SetBreak

NextLoop == loop \/ AdvanceLoop \/ SetBreakLoop

SpecLoop == InitLoop /\ [][NextLoop]_vars

----------------------------------------------------------------------------
(* The auto-cycle running for ever with no abort.  The program uses        *)
(* millis() only in differences now - earlier, so moving the origin of     *)
(* time changes no behaviour: the origin is moved to the completing call   *)
(* of each FLIGHT run, which keeps the timestamps of an endless run in a   *)
(* finite range.                                                           *)

\* loop() is entered again (as AdvanceLoop), and after a completed FLIGHT
\* run the time of the completing call becomes the new origin
AdvanceLive ==
    \E step \in (IF returned = "other" THEN {0} ELSE LoopSteps) :
        LET d == IF returned = "true" THEN clock ELSE 0
        IN  /\ returned # "none"
            /\ returned' = "none"
            /\ clock' = clock + step - d
            /\ phaseStart' = phaseStart - d
            /\ lastPropUpdate' = lastPropUpdate - d
            /\ lastTailUpdate' = lastTailUpdate - d
            /\ lastCall' = lastCall - d
            /\ blinkNow' = blinkNow - d
            /\ lastModeChange' = lastModeChange - d
            /\ UNCHANGED << gotBreak, breaks, irregular, abortedAt, mode, committed,
                            phase, propDelay, tailDelay, prop1_angle,
                            prop2_angle, prop3_angle, prop4_angle, tail_pos,
                            frame, shows, navLights, blinkState, lightsArg,
                            autoCycleSubMode, patternComplete >>

NextLive == loop \/ AdvanceLive

\* the Arduino core calls loop() again whenever it returns, and millis()
\* keeps counting
SpecLive ==
    InitLoop /\ [][NextLive]_vars /\ WF_vars(loop) /\ WF_vars(AdvanceLive)

----------------------------------------------------------------------------
(* The easing function on its own: the input is the elapsed time of a LIFT *)
(* tick, progress = clock / liftTime, and the result is stored in          *)
(* propDelay as LIFT does.                                                 *)

EaseInputs == 0 .. liftTime

InitEase == clock \in EaseInputs /\ InitState

\* propDelay = calculatePropDelay(liftProgress)
ApplyEase ==
    /\ returned = "none"
    /\ propDelay' = calculatePropDelay(clock, liftTime)
    /\ returned' = "eased"
    /\ UNCHANGED << clock, gotBreak, phase, phaseStart, lastPropUpdate,
                    lastTailUpdate, tailDelay, prop1_angle, prop2_angle,
                    prop3_angle, prop4_angle, tail_pos, frame, shows,
                    irregular, breaks, lastCall, abortedAt, committed,
                    navLights, blinkState, blinkNow, lightsArg >>
    /\ SchedulerUnchanged

SpecEase == InitEase /\ [][ApplyEase]_vars

----------------------------------------------------------------------------
(* Vocabulary of the properties *)

\* this step is a call of flightPattern
Called == returned = "none" /\ returned' \in {"true", "false"}

\* the cyclic successor of a phase
Succ(p) == (p + 1) % 5

\* the documented duration of each phase
Duration(p) ==
    CASE p = 0 -> 5000
      [] p = 1 -> 8000
      [] p = 2 -> 5000
      [] p = 3 -> 13000
      [] OTHER -> 5000

\* phase_elapsed as the call about to run will compute it
PhaseElapsed == ULSub(clock, phaseStart)

----------------------------------------------------------------------------
(* C1 - Over any sequence of calls the phase changes only to its cyclic    *)
(* successor LIFT -> TRANSITION_IN -> CONVENTIONAL ->                      *)
(* TRANSITION_OUT_LANDING -> GROUND_PAUSE -> LIFT, by at most one step per *)
(* call; the only other change of phase is the abort reset to LIFT.        *)
C1_PhaseSuccession ==
    [][ \/ phase' = phase
        \/ phase' = Succ(phase)
        \/ (gotBreak /\ ~gotBreak' /\ phase' = 0) ]_vars

\* GROUND_PAUSE has been reached through the four transitions, no abort
C1_Witness == phase = 4 /\ breaks = 0 /\ returned = "false"

(* C2 - With a monotonic clock phase_elapsed is never negative; the phase  *)
(* logic of a call takes the exit of the current phase if and only if      *)
(* phase_elapsed >= the phase's duration (so a call that does not perform  *)
(* the abort reset ends in the successor phase exactly then); and when the *)
(* previous call was d ms earlier, the exit is taken with phase_elapsed in *)
(* [duration, duration + d).                                               *)
C2_TransitionsAtThreshold ==
    [][ Called =>
          /\ clock >= phaseStart
          /\ (PhaseLogic(SeqState, clock).phase # phase)
                <=> (PhaseElapsed >= Duration(phase))
          /\ ~gotBreak =>
                ((phase' = Succ(phase)) <=> (PhaseElapsed >= Duration(phase)))
          /\ (lastCall >= 0 /\ PhaseElapsed >= Duration(phase)) =>
                PhaseElapsed < Duration(phase) + (clock - lastCall) ]_vars

\* CONVENTIONAL has just been entered by the call at clock
C2_Witness ==
    phase = 2 /\ returned = "false" /\ phaseStart = clock /\ breaks = 0

(* C3 - From the initial state, with the clock starting at 0 and advancing *)
(* in fixed 10 ms steps up to 36000 ms and abort never set, flightPattern  *)
(* returns true exactly once, at the call at t = 36000, and false on every *)
(* other call.                                                             *)
C3_CompleteOnceAt36000 ==
    (returned # "none" /\ clock <= 36000) =>
        ((returned = "true") <=> (clock = 36000))

\* the call at t = 36000 has returned true
C3_Witness == returned = "true" /\ clock = 36000 /\ lastCall = 36000

(* C4 - flightPattern returns true on a call if and only if the phase at   *)
(* the start of the call is GROUND_PAUSE and now - phaseStart >= 5000;     *)
(* every other call returns false, and so does every call that performs    *)
(* the abort reset.                                                        *)
C4_TrueOnlyAtGroundPauseEnd ==
    [][ Called =>
          /\ (returned' = "true") <=> (phase = 4 /\ PhaseElapsed >= 5000)
          /\ (gotBreak /\ ~gotBreak') => returned' = "false" ]_vars

\* a call has returned true and restarted the phase timer
C4_Witness == returned = "true" /\ phase = 0 /\ phaseStart = clock

\* this step is a call that performs the abort reset
AbortObserved == Called /\ gotBreak /\ ~gotBreak'

(* C5 - A call made while the abort flag is set, in any phase and at any   *)
(* phase_elapsed (including a call on which GROUND_PAUSE has reached its   *)
(* 5000 ms threshold), ends with phase LIFT, all four prop angles 0 and    *)
(* the tail position 0, and returns false.                                 *)
C5_AbortAlwaysResets ==
    [][ (Called /\ gotBreak) =>
          /\ phase' = 0
          /\ prop1_angle' = 0 /\ prop2_angle' = 0
          /\ prop3_angle' = 0 /\ prop4_angle' = 0
          /\ tail_pos' = 0
          /\ returned' = "false" ]_vars

(* C6 - The abort signal is cleared upon consumption: after every call     *)
(* that was entered with gotBreak set, gotBreak is false.                  *)
C6_AbortCleared ==
    [][ (Called /\ gotBreak) => ~gotBreak' ]_vars

(* C7 - The call that ends GROUND_PAUSE and returns true resets the        *)
(* sequencer state to its initial values: phase LIFT, phase timer          *)
(* restarted at now, prop period 500, tail period 200, and all four prop   *)
(* angles and the tail position back to 0.                                 *)
C7_CompletionResetsAll ==
    [][ (Called /\ returned' = "true") =>
          /\ phase' = 0
          /\ phaseStart' = clock
          /\ propDelay' = 500
          /\ tailDelay' = 200
          /\ prop1_angle' = 0 /\ prop2_angle' = 0
          /\ prop3_angle' = 0 /\ prop4_angle' = 0
          /\ tail_pos' = 0 ]_vars

\* one step backwards / forwards on the 9-cell ring
Dec9(a) == (a + 8) % 9
Inc9(a) == (a + 1) % 9

\* props 0 and 3 step backwards or stay, props 1 and 2 step forwards or stay
RotorDirections ==
    /\ prop1_angle' \in {prop1_angle, Dec9(prop1_angle)}
    /\ prop4_angle' \in {prop4_angle, Dec9(prop4_angle)}
    /\ prop2_angle' \in {prop2_angle, Inc9(prop2_angle)}
    /\ prop3_angle' \in {prop3_angle, Inc9(prop3_angle)}

(* C8 (as stated) - On every call, whatever the phase and inputs, the      *)
(* angle of props 0 and 3 is unchanged or changed by -1 mod 9 and the      *)
(* angle of props 1 and 2 is unchanged or changed by +1 mod 9.             *)
C8_DirectionOnEveryCall == [][ RotorDirections ]_vars

(* C8 (amended) - On every call that does not perform the abort reset the  *)
(* angle of props 0 and 3 is unchanged or changed by -1 mod 9 and the      *)
(* angle of props 1 and 2 is unchanged or changed by +1 mod 9; a call that *)
(* performs the abort reset sets all four angles to 0.                     *)
C8_DirectionExceptAbort ==
    [][ IF AbortObserved
        THEN /\ prop1_angle' = 0 /\ prop2_angle' = 0
             /\ prop3_angle' = 0 /\ prop4_angle' = 0
        ELSE RotorDirections ]_vars

\* the props have advanced twice, the last time on the latest call
C8_Witness ==
    /\ returned = "false" /\ breaks = 0 /\ lastPropUpdate = lastCall
    /\ prop1_angle = 7 /\ prop4_angle = 7
    /\ prop2_angle = 2 /\ prop3_angle = 2

(* C9 - In every reachable state the prop update period propDelay is       *)
(* within [10, 500] ms, for every phase and every phase_elapsed, including *)
(* calls that arrive long after a phase threshold.                         *)
C9_PropDelayInRange == propDelay >= 10 /\ propDelay <= 500

\* a TRANSITION_IN call 4000 ms after the hold threshold, mid-curve
C9_Witness ==
    /\ returned = "false" /\ phase = 1
    /\ clock - phaseStart = 7000
    /\ propDelay > 10 /\ propDelay < 500

\* the tail period the documentation gives for each phase
DocumentedTailPeriod ==
    CASE phase = 0 \/ phase = 4 -> 400
      [] phase = 2 -> 30
      [] phase = 1 -> 50
      [] OTHER     -> tailDelay

(* C10 - The tail period that gates tail advancement is the fixed 400 ms   *)
(* in LIFT and GROUND_PAUSE, the fixed 30 ms in CONVENTIONAL, the fixed    *)
(* 50 ms in TRANSITION_IN and the variable tailDelay in                    *)
(* TRANSITION_OUT_LANDING: a call advances the tail exactly when           *)
(* now - lastTailUpdate reaches that period.  tailDelay is within          *)
(* [50, 200] in every reachable state.                                     *)
C10_TailPeriods ==
    /\ tailDelay >= 50 /\ tailDelay <= 200
    /\ [][ /\ tailDelay' >= 50 /\ tailDelay' <= 200
           /\ Called =>
                LET gate == ULSub(clock, lastTailUpdate) >= DocumentedTailPeriod
                IN  /\ gate => lastTailUpdate' = clock
                    /\ ~gate => lastTailUpdate' = lastTailUpdate
                    /\ ~gotBreak =>
                         tail_pos' = IF gate THEN (tail_pos + 1) % 5
                                     ELSE tail_pos ]_vars

\* in TRANSITION_OUT_LANDING the tail advanced twice and then a call came
\* too early to advance it
C10_Witness ==
    /\ returned = "false" /\ phase = 3 /\ tailDelay = 52
    /\ lastTailUpdate < lastCall

----------------------------------------------------------------------------
\* C11: in every state the four prop angles are integers in 0..8 and the
\* tail position is an integer in 0..4; a step that moves a clockwise prop
\* off 8 puts it on 0, a step that moves a counter-clockwise prop off 0 puts
\* it on 8 (unless it is the abort reset, which leaves 0 in place), and a
\* step that moves the tail off 4 puts it on 0.
C11_AnglesInRange ==
    /\ []( /\ prop1_angle \in 0..8 /\ prop2_angle \in 0..8
           /\ prop3_angle \in 0..8 /\ prop4_angle \in 0..8
           /\ tail_pos \in 0..4 )
    /\ [][ /\ (prop2_angle = 8 /\ prop2_angle' # 8) => prop2_angle' = 0
           /\ (prop3_angle = 8 /\ prop3_angle' # 8) => prop3_angle' = 0
           /\ (prop1_angle = 0 /\ prop1_angle' # 0) => prop1_angle' = 8
           /\ (prop4_angle = 0 /\ prop4_angle' # 0) => prop4_angle' = 8
           /\ (tail_pos = 4 /\ tail_pos' # 4) => tail_pos' = 0 ]_vars

\* the props have just gone once round (nine steps, both wraps taken) and
\* the tail has just wrapped from 4 to 0
C11_Witness ==
    /\ returned = "false" /\ breaks = 0
    /\ lastPropUpdate = lastCall /\ lastPropUpdate > 0
    /\ prop1_angle = 0 /\ prop2_angle = 0
    /\ lastTailUpdate = lastCall /\ lastTailUpdate > 0 /\ tail_pos = 0

----------------------------------------------------------------------------
\* the lit pixels of the four prop rings in the frame
PropCells(f) == f \cap (0..35)

\* the parked rendering: offsets 0 and 4 on props 0 and 2, 8 and 4 on
\* props 1 and 3
ParkedCells == {0, 4, 17, 13, 18, 22, 35, 31}

\* C12: a call that renders while the phase is CONVENTIONAL (it found the
\* phase CONVENTIONAL, or its phase logic moved from TRANSITION_IN to
\* CONVENTIONAL) lights exactly pixels 0,4, 17,13, 18,22, 35,31 among the
\* prop pixels, whatever the prop angles are.
C12_ParkedInConventional ==
    [][ ( /\ Called /\ shows' = 1
          /\ \/ phase = 2
             \/ phase = 1 /\ ULSub(clock, phaseStart) >= 8000 )
        => PropCells(frame') = ParkedCells ]_vars

\* a CONVENTIONAL frame drawn while the prop angles are not those of the
\* parked cells
C12_Witness ==
    /\ returned = "false" /\ shows = 1 /\ phase = 2
    /\ prop1_angle # 0 /\ prop2_angle # 8
    /\ PropCells(frame) = ParkedCells

----------------------------------------------------------------------------
\* the spinning rendering of four angles: cells a and (a + 4) mod 9 of
\* each ring
SpinCells(a1, a2, a3, a4) ==
    { a1, (a1 + 4) % 9, 9 + a2, 9 + ((a2 + 4) % 9),
      18 + a3, 18 + ((a3 + 4) % 9), 27 + a4, 27 + ((a4 + 4) % 9) }

\* C13: a call that renders draws the props spinning exactly when, after
\* its phase logic, the phase is not CONVENTIONAL and the prop period is
\* below 500; spinning lights cells angle and (angle + 4) mod 9 of each
\* ring, and otherwise (period exactly 500 included) the parked cells are
\* lit.
C13_SpinningIffFast ==
    [][ (Called /\ shows' = 1) =>
          LET s == PhaseLogic(SeqState, clock)
              spinning == s.phase # 2 /\ s.propDelay < 500
          IN  PropCells(frame') =
                IF spinning
                THEN SpinCells(s.prop1_angle, s.prop2_angle,
                               s.prop3_angle, s.prop4_angle)
                ELSE ParkedCells ]_vars

\* a spinning frame in LIFT whose second cell of ring 0 wraps past cell 8
C13_Witness ==
    /\ returned = "false" /\ shows = 1 /\ breaks = 0
    /\ phase = 0 /\ propDelay < 500 /\ prop1_angle = 8
    /\ PropCells(frame) = SpinCells(8, prop2_angle, prop3_angle, prop4_angle)
    /\ 3 \in frame

----------------------------------------------------------------------------
\* C14: every call of flightPattern, the call that returns true included,
\* lights at most 10 pixels and calls strip.show() exactly once.
C14_OneShowPerCall ==
    [][ Called => (shows' = 1 /\ Cardinality(frame') <= 10) ]_vars

----------------------------------------------------------------------------
\* C15: every pixel flightPattern writes has an index in 0..40; the two
\* cells of prop i lie in 9*i .. 9*i + 8 and the tail cell lies in 36..40,
\* in the spinning and in the parked rendering.
C15_PixelsInRange ==
    frame # {} =>
        /\ frame \subseteq 0..40
        /\ \A i \in 0..3 : Cardinality(frame \cap (9 * i .. 9 * i + 8)) = 2
        /\ Cardinality(frame \cap (36..40)) = 1

\* a spinning frame whose second cell on ring 3 and whose tail cell are the
\* last ones of their ranges reached by wrapping: angle 8 lights 35 and 30
C15_Witness ==
    /\ returned = "false" /\ shows = 1 /\ propDelay < 500 /\ phase # 2
    /\ prop4_angle = 8 /\ 35 \in frame /\ 30 \in frame
    /\ tail_pos = 4 /\ 40 \in frame

----------------------------------------------------------------------------
\* C16 as stated: every call of flightPattern that renders calls
\* lights(true), the blinking mode.
C16_RequestsBlinking ==
    [][ (Called /\ shows' = 1) => lightsArg' = "true" ]_vars

\* C16 as the code has it: every call of flightPattern that renders calls
\* lights(false), the constant mode, and never lights(true).
C16_RequestsConstant ==
    [][ (Called /\ shows' = 1) => lightsArg' = "false" ]_vars

\* a rendered frame later than blinkTime after the last toggle, when a
\* blinking request would have toggled the lights
C16_Witness ==
    /\ returned = "false" /\ shows = 1 /\ lightsArg = "false"
    /\ lastCall - blinkNow > 1500

\* C17: on every call of flightPattern that renders, the nose, port and
\* starboard outputs are HIGH afterwards and blinkState and the blink
\* timer keep their values.
C17_NavLightsConstantOn ==
    [][ (Called /\ shows' = 1) =>
          /\ navLights'.nose /\ navLights'.port /\ navLights'.star
          /\ blinkState' = blinkState
          /\ blinkNow' = blinkNow ]_vars

\* the first rendered frame: port and starboard were LOW since power-up
\* and are HIGH after it
C17_Witness ==
    /\ returned = "false" /\ shows = 1
    /\ navLights = [ nose |-> TRUE, port |-> TRUE, star |-> TRUE ]
    /\ blinkState /\ blinkNow = 0 /\ lastCall > 1500
    /\ phase = 0 /\ breaks = 0 /\ clock < 5000

----------------------------------------------------------------------------
\* C18: a call whose now is smaller than lastPropUpdate leaves the props
\* where they are, a call whose now is smaller than lastTailUpdate leaves
\* the tail where it is, and a call whose now is smaller than phaseStart
\* leaves the phase as it is.
C18_BackwardsClockSkipsUpdate ==
    [][ Called =>
          /\ clock < lastPropUpdate =>
                /\ prop1_angle' = prop1_angle /\ prop2_angle' = prop2_angle
                /\ prop3_angle' = prop3_angle /\ prop4_angle' = prop4_angle
                /\ lastPropUpdate' = lastPropUpdate
          /\ clock < lastTailUpdate =>
                (tail_pos' = tail_pos /\ lastTailUpdate' = lastTailUpdate)
          /\ clock < phaseStart =>
                (phase' = phase /\ phaseStart' = phaseStart) ]_vars

----------------------------------------------------------------------------
\* this step is one iteration of loop()
LoopStep == returned = "none" /\ returned' # "none"

\* C19: an iteration of loop() that ends on FLIGHT (sub-mode 0) calls
\* flightPattern; an iteration leaves FLIGHT only if the last flightPattern
\* call, made by the iteration before it, returned true (the one call that
\* makes no strip.show()); after a call that returned false, aborted or
\* not, the next iteration stays on FLIGHT however long ago the last switch
\* was.
C19_FlightLeftOnlyOnCompletion ==
    [][ /\ Called => ((returned' = "true") <=> (shows' = 0))
        /\ LoopStep =>
              /\ autoCycleSubMode' = 0 =>
                    (returned' \in {"true", "false"} /\ lastCall' >= clock)
              /\ (autoCycleSubMode = 0 /\ autoCycleSubMode' # 0) =>
                    (shows = 0 /\ lastCall >= 0 /\ clock - lastCall <= 1000)
              /\ (autoCycleSubMode = 0 /\ shows = 1) =>
                    autoCycleSubMode' = 0 ]_vars

\* a FLIGHT run that was aborted at 9000 ms, went on to complete 36 s later
\* and was left for SLOW RAINBOW by the iteration after the completing call
C19_Witness ==
    /\ autoCycleSubMode = 1 /\ returned = "other" /\ breaks = 1
    /\ shows = 0 /\ lastCall = 45000 /\ lastModeChange = 46000

\* C20: autoCycleSubMode is always in 0..3; it changes only in an iteration
\* of loop(), by one step of 0 -> 1 -> 2 -> 3 -> 0; sub-modes 1..3 are left
\* only when millis() - lastModeChange >= 10000 at that iteration; after
\* every switch lastModeChange is the time of the switch and
\* patternComplete is false.
C20_RoundRobin ==
    /\ autoCycleSubMode \in 0..3
    /\ [][ /\ autoCycleSubMode' \in 0..3
           /\ autoCycleSubMode' # autoCycleSubMode =>
                 /\ LoopStep
                 /\ autoCycleSubMode' = (autoCycleSubMode + 1) % 4
                 /\ autoCycleSubMode \in 1..3 =>
                       clock - lastModeChange >= 10000
                 /\ lastModeChange' = clock
                 /\ patternComplete' = FALSE ]_vars

\* the cycle has gone round: FLIGHT runs again after RAINBOW PROPS
C20_Witness ==
    /\ autoCycleSubMode = 0 /\ returned = "false" /\ breaks = 0
    /\ lastModeChange = 75900 /\ lastCall = 76000

----------------------------------------------------------------------------
\* the time of the first flightPattern call of the current FLIGHT run: the
\* first iteration after setup(), or the iteration that switched to
\* sub-mode 0, which calls flightPattern after its delay(100)
RunStart == IF lastModeChange = 0 THEN 1000 ELSE lastModeChange + 100

\* C21: in the auto-cycle without abort, every FLIGHT run leaves LIFT 5000 ms
\* after its first flightPattern call and returns true 36000 ms after it,
\* give or take one loop period (1000 ms in this model) per phase.
C21_EveryRunLasts36s ==
    [][ (Called /\ breaks = 0) =>
          /\ (phase = 0 /\ phase' = 1) =>
                (lastCall' - RunStart' >= 4000 /\ lastCall' - RunStart' <= 6000)
          /\ returned' = "true" =>
                (lastCall' - RunStart' >= 31000 /\ lastCall' - RunStart' <= 41000)
      ]_vars

----------------------------------------------------------------------------
\* C22: without abort, the iteration that leaves a timer-driven pattern
\* (sub-modes 1..3) finds millis() - lastModeChange at 10000 ms, give or
\* take the delay(100) of the switch and one frame delay of 50 ms.
C22_TimerPatternsRun10s ==
    [][ ( /\ LoopStep /\ breaks = 0
          /\ autoCycleSubMode \in 1..3
          /\ autoCycleSubMode' # autoCycleSubMode )
        => ( /\ clock - lastModeChange >= 10000
             /\ clock - lastModeChange <= 10150 ) ]_vars

----------------------------------------------------------------------------
\* C23: calculatePropDelay returns exactly 500 at progress 0 and exactly 10
\* at progress 1; over the sample points 0, 0.25, 0.5, 0.75, 1 each result
\* is strictly below the one before; and over all progress values
\* k / 5000 the result never rises.
C23_EaseEndpointsAndMonotone ==
    returned = "eased" =>
        /\ clock = 0 => propDelay = 500
        /\ clock = 5000 => propDelay = 10
        /\ clock \in {1250, 2500, 3750, 5000} =>
              propDelay < calculatePropDelay(clock - 1250, 5000)
        /\ clock > 0 => propDelay <= calculatePropDelay(clock - 1, 5000)

\* the function applied at progress 0.75
C23_Witness == returned = "eased" /\ clock = 3750 /\ propDelay = 224

\* the periods C24 lists for progress 0, 0.25, 0.5, 0.75, 1, in thousandths
\* of a millisecond
C24_ListedMilli ==
    [ c \in {0, 1250, 2500, 3750, 5000} |->
        CASE c = 0    -> 500000
          [] c = 1250 -> 468750
          [] c = 2500 -> 377500
          [] c = 3750 -> 225600
          [] OTHER    -> 10000 ]

\* the values of 500 - progress^2 * 490 at the same points, in thousandths
C24_FormulaMilli ==
    [ c \in {0, 1250, 2500, 3750, 5000} |->
        CASE c = 0    -> 500000
          [] c = 1250 -> 469375
          [] c = 2500 -> 377500
          [] c = 3750 -> 224375
          [] OTHER    -> 10000 ]

\* C24 as stated: at progress 0, 0.25, 0.5, 0.75, 1 the easing function
\* yields 500, 468.75, 377.5, 225.6, 10 (the function returns an int, so
\* the result is within 1 of the listed period).
C24_ListedValues ==
    (returned = "eased" /\ clock \in DOMAIN C24_ListedMilli) =>
        /\ 1000 * propDelay > C24_ListedMilli[clock] - 1000
        /\ 1000 * propDelay < C24_ListedMilli[clock] + 1000

\* C24 as the code has it: at progress 0, 0.25, 0.5, 0.75, 1 the formula
\* 500 - progress^2 * 490 is 500, 469.375, 377.5, 224.375, 10 and the
\* function returns it truncated to an int: 500, 469, 377, 224, 10.
C24_TruncatedValues ==
    (returned = "eased" /\ clock \in DOMAIN C24_FormulaMilli) =>
        /\ 1000 * propDelay <= C24_FormulaMilli[clock]
        /\ 1000 * (propDelay + 1) > C24_FormulaMilli[clock]

\* the function applied at progress 0.25
C24_Witness == returned = "eased" /\ clock = 1250 /\ propDelay = 469

----------------------------------------------------------------------------
\* ease(n / d) as documented, 500 - (n / d)^2 * 490 truncated to an integer,
\* for 0 <= n <= d = 5000
DocEase(n, d) == (500 * ((d * d) \div 10) - 49 * n * n) \div ((d * d) \div 10)

\* the prop period a tick computes in the phases that animate the props,
\* from the phase and the time e spent in it
DocPropPeriod(ph, e) ==
    CASE ph = 0 -> DocEase(Min(e, 5000), 5000)
      [] ph = 1 -> IF e <= 3000 THEN 10
                   ELSE DocEase(5000 - Min(e - 3000, 5000), 5000)
      [] ph = 3 -> IF e < 5000 THEN DocEase(e, 5000)
                   ELSE IF e < 8000 THEN 10
                   ELSE DocEase(5000 - Min(e - 8000, 5000), 5000)
      [] OTHER  -> 500

\* the state the phase logic of this call leaves (the abort reset, if any,
\* comes after it)
AfterPhaseLogic == PhaseLogic(SeqState, clock)

\* this call performs no abort reset, so it ends in AfterPhaseLogic
KeepsPhaseLogic ==
    ~gotBreak =>
        /\ prop1_angle' = AfterPhaseLogic.prop1_angle
        /\ prop2_angle' = AfterPhaseLogic.prop2_angle
        /\ prop3_angle' = AfterPhaseLogic.prop3_angle
        /\ prop4_angle' = AfterPhaseLogic.prop4_angle
        /\ tail_pos' = AfterPhaseLogic.tail_pos
        /\ lastPropUpdate' = AfterPhaseLogic.lastPropUpdate
        /\ lastTailUpdate' = AfterPhaseLogic.lastTailUpdate
        /\ propDelay' = AfterPhaseLogic.propDelay
        /\ tailDelay' = AfterPhaseLogic.tailDelay
        /\ phase' = AfterPhaseLogic.phase
        /\ phaseStart' = AfterPhaseLogic.phaseStart

\* C25: in the phases that animate the props (LIFT, TRANSITION_IN,
\* TRANSITION_OUT_LANDING) the rotor update of a call moves every prop by
\* exactly one position and sets lastPropUpdate to now if
\* now - lastPropUpdate >= the prop period of this call, and otherwise
\* leaves angles and lastPropUpdate alone; the tail does the same with
\* lastTailUpdate and its period; no call moves a rotor by two or more
\* positions, however late it comes; the first call at t = 0 moves nothing
\* and has prop period 500.
C25_RotorRule ==
    [][ Called =>
          LET s == AfterPhaseLogic
              e == clock - phaseStart
              propGate == clock - lastPropUpdate >= DocPropPeriod(phase, e)
              tailGate == clock - lastTailUpdate >= DocumentedTailPeriod
          IN  /\ KeepsPhaseLogic
              /\ (phase \in {0, 1, 3} /\ propGate) =>
                    /\ s.prop1_angle = Dec9(prop1_angle)
                    /\ s.prop2_angle = Inc9(prop2_angle)
                    /\ s.prop3_angle = Inc9(prop3_angle)
                    /\ s.prop4_angle = Dec9(prop4_angle)
                    /\ s.lastPropUpdate = clock
              /\ (phase \in {0, 1, 3} /\ ~propGate) =>
                    /\ s.prop1_angle = prop1_angle
                    /\ s.prop2_angle = prop2_angle
                    /\ s.prop3_angle = prop3_angle
                    /\ s.prop4_angle = prop4_angle
                    /\ s.lastPropUpdate = lastPropUpdate
              /\ tailGate =>
                    (s.tail_pos = (tail_pos + 1) % 5 /\ s.lastTailUpdate = clock)
              /\ ~tailGate =>
                    (s.tail_pos = tail_pos /\ s.lastTailUpdate = lastTailUpdate)
              /\ (clock = 0 /\ lastCall = -1) =>
                    /\ s.propDelay = 500
                    /\ s.prop1_angle = 0 /\ s.prop2_angle = 0
                    /\ s.prop3_angle = 0 /\ s.prop4_angle = 0
                    /\ s.tail_pos = 0 ]_vars

\* the second call comes 7000 ms after the first one at t = 0: it moves
\* every rotor by one position only
C25_Witness ==
    /\ returned = "false" /\ breaks = 0 /\ lastCall = 7000
    /\ lastPropUpdate = 7000 /\ lastTailUpdate = 7000
    /\ prop1_angle = 8 /\ prop2_angle = 1 /\ prop3_angle = 1 /\ prop4_angle = 8
    /\ tail_pos = 1

\* the props moved in the rotor update of this call
PropsStepped ==
    /\ AfterPhaseLogic.prop1_angle = Dec9(prop1_angle)
    /\ AfterPhaseLogic.prop2_angle = Inc9(prop2_angle)
    /\ AfterPhaseLogic.prop3_angle = Inc9(prop3_angle)
    /\ AfterPhaseLogic.prop4_angle = Dec9(prop4_angle)

\* the tail moved in the rotor update of this call
TailStepped == AfterPhaseLogic.tail_pos = (tail_pos + 1) % 5

\* C26: on every LIFT tick the prop period is ease(min(1, e / 5000)) for
\* the time e spent in the phase: the props are gated with it and, while
\* the phase lasts, propDelay holds it; the tail is gated with the fixed
\* period 400; a tick with e < 5000 stays in LIFT, a tick with e >= 5000
\* enters TRANSITION_IN with phaseStart = now and prop period 10.
C26_LiftProfile ==
    [][ (Called /\ phase = 0) =>
          LET s == AfterPhaseLogic
              e == clock - phaseStart
          IN  /\ KeepsPhaseLogic
              /\ PropsStepped <=>
                    (clock - lastPropUpdate >= DocEase(Min(e, 5000), 5000))
              /\ TailStepped <=> (clock - lastTailUpdate >= 400)
              /\ s.tailDelay = tailDelay
              /\ e < 5000 =>
                    /\ s.phase = 0 /\ s.phaseStart = phaseStart
                    /\ s.propDelay = DocEase(e, 5000)
              /\ e >= 5000 =>
                    /\ s.phase = 1 /\ s.phaseStart = clock
                    /\ s.propDelay = 10 ]_vars

\* LIFT ticks at 0, 1000, ..., 4000 ms and the tick at 5000 ms that leaves
\* the phase
C26_Witness ==
    /\ returned = "false" /\ breaks = 0 /\ irregular = 0
    /\ lastCall = 5000 /\ phase = 1 /\ phaseStart = 5000 /\ propDelay = 10
    /\ prop1_angle = 4 /\ tail_pos = 0

\* C27: on every TRANSITION_IN tick the prop period is 10 while e <= 3000
\* and ease(1 - min(1, (e - 3000) / 5000)) after that: the props are gated
\* with it and, while the phase lasts, propDelay holds it; the tail is
\* gated with the fixed period 50; a tick with e < 8000 stays in the phase,
\* a tick with e >= 8000 enters CONVENTIONAL with phaseStart = now and prop
\* period 500.
C27_TransitionInProfile ==
    [][ (Called /\ phase = 1) =>
          LET s == AfterPhaseLogic
              e == clock - phaseStart
              period == IF e <= 3000 THEN 10
                        ELSE DocEase(5000 - Min(e - 3000, 5000), 5000)
          IN  /\ KeepsPhaseLogic
              /\ PropsStepped <=> (clock - lastPropUpdate >= period)
              /\ TailStepped <=> (clock - lastTailUpdate >= 50)
              /\ s.tailDelay = tailDelay
              /\ e < 8000 =>
                    /\ s.phase = 1 /\ s.phaseStart = phaseStart
                    /\ s.propDelay = period
              /\ e >= 8000 =>
                    /\ s.phase = 2 /\ s.phaseStart = clock
                    /\ s.propDelay = 500 ]_vars

\* a TRANSITION_IN tick 5000 ms into the phase, 2000 ms into the
\* deceleration: ease(0.6) = 323
C27_Witness ==
    /\ returned = "false" /\ breaks = 0 /\ irregular = 0
    /\ phase = 1 /\ phaseStart = 5000 /\ lastCall = 10000 /\ propDelay = 323

C29_TailDeceleration ==
    /\ [](phase = 3 => (tailDelay >= 50 /\ tailDelay <= 200))
    /\ [][ /\ (phase = 3 /\ phase' = 3) => tailDelay' >= tailDelay
           /\ (Called /\ phase = 2 /\ AfterPhaseLogic.phase = 3) =>
                 AfterPhaseLogic.tailDelay = 50
           /\ (Called /\ phase = 3) =>
                 /\ KeepsPhaseLogic
                 /\ TailStepped => AfterPhaseLogic.tailDelay = tailDelay + 1
                 /\ ~TailStepped => AfterPhaseLogic.tailDelay = tailDelay
                 /\ AfterPhaseLogic.tailDelay <= 200 ]_vars

\* ten seconds into TRANSITION_OUT_LANDING, entered at 18000 ms, with one
\* call a second: ten tail advances since entry
C29_Witness ==
    /\ returned = "false" /\ breaks = 0 /\ irregular = 0
    /\ lastCall = 28000 /\ phase = 3 /\ phaseStart = 18000
    /\ tailDelay = 60 /\ lastTailUpdate = 28000

\* C30: on every TRANSITION_OUT_LANDING tick the prop period is
\* ease(e / 5000) while e < 5000, 10 while 5000 <= e < 8000 and
\* ease(1 - min(1, (e - 8000) / 5000)) from e = 8000 on: the props are
\* gated with it and, while the phase lasts, propDelay holds it; a tick
\* with e < 13000 stays in the phase, a tick with e >= 13000 enters
\* GROUND_PAUSE with phaseStart = now and prop period 500.
C30_TransitionOutProfile ==
    [][ (Called /\ phase = 3) =>
          LET s == AfterPhaseLogic
              e == clock - phaseStart
              period == IF e < 5000 THEN DocEase(e, 5000)
                        ELSE IF e < 8000 THEN 10
                        ELSE DocEase(5000 - Min(e - 8000, 5000), 5000)
          IN  /\ KeepsPhaseLogic
              /\ PropsStepped <=> (clock - lastPropUpdate >= period)
              /\ e < 13000 =>
                    /\ s.phase = 3 /\ s.phaseStart = phaseStart
                    /\ s.propDelay = period
              /\ e >= 13000 =>
                    /\ s.phase = 4 /\ s.phaseStart = clock
                    /\ s.propDelay = 500 ]_vars

\* a TRANSITION_OUT_LANDING tick 10000 ms into the phase, 2000 ms into the
\* spin-down: ease(0.6) = 323
C30_Witness ==
    /\ returned = "false" /\ breaks = 0 /\ irregular = 0
    /\ phase = 3 /\ phaseStart = 18000 /\ lastCall = 28000 /\ propDelay = 323

----------------------------------------------------------------------------
----------------------------------------------------------------------------
\* the LIFT phase that the last abort reset started is still running
InRestartedLift ==
    abortedAt >= 0 /\ phase = 0 /\ phaseStart >= abortedAt
                   /\ phaseStart <= abortedAt + 2

\* C33: a call that observes the abort returns false and restarts the run
\* in LIFT with the phase timer at the time of that call; once a call has
\* observed an abort, no call returns true less than 36000 ms after it, and
\* the LIFT phase it started is left no sooner than 5000 ms after it.
C33_NoCreditAfterAbort ==
    [][ Called =>
          /\ AbortObserved =>
                /\ returned' = "false" /\ abortedAt' = lastCall'
                /\ phase' = 0 /\ phaseStart' = clock'
          /\ (abortedAt' >= 0 /\ returned' = "true") =>
                lastCall' - abortedAt' >= 36000
          /\ (InRestartedLift /\ phase' # 0) =>
                (phase' = 1 /\ lastCall' - abortedAt >= 5000) ]_vars

\* the run restarted by an abort observed at 1000 ms completes at 37000 ms
C33_Witness ==
    /\ returned = "true" /\ breaks = 1 /\ ~gotBreak
    /\ abortedAt = 1000 /\ lastCall = 37000

\* the frame rendered from the state s: the spinning or the parked prop
\* cells and the tail cell
DocFrame(s) ==
    ( IF s.phase # 2 /\ s.propDelay < 500
      THEN SpinCells(s.prop1_angle, s.prop2_angle, s.prop3_angle, s.prop4_angle)
      ELSE ParkedCells )
    \cup { 36 + s.tail_pos }

\* C34: a call that observes the abort first runs its phase logic, renders
\* the frame of the state the phase logic left and commits it once, and
\* only then resets the state (phase timer = the time after the render) and
\* returns false; gotBreak is read at that one point only: a call that
\* returns true before it leaves the flag as it found it.
C34_NoPreemptionMidRender ==
    [][ /\ AbortObserved =>
              /\ shows' = 1
              /\ frame' = DocFrame(AfterPhaseLogic)
              /\ returned' = "false"
              /\ phase' = 0 /\ phaseStart' = clock'
              /\ propDelay' = 500 /\ tailDelay' = 200
              /\ prop1_angle' = 0 /\ prop2_angle' = 0
              /\ prop3_angle' = 0 /\ prop4_angle' = 0
              /\ tail_pos' = 0
        /\ (Called /\ gotBreak /\ ~AfterPhaseLogic.complete) => AbortObserved
        /\ (Called /\ returned' = "true") => gotBreak' = gotBreak ]_vars

\* after a call that observed the abort: the state is reset while the
\* committed frame still shows the rotors where the phase logic left them
C34_Witness ==
    /\ returned = "false" /\ shows = 1 /\ abortedAt = lastCall /\ abortedAt > 0
    /\ phase = 0 /\ prop1_angle = 0 /\ tail_pos = 0 /\ phaseStart = clock
    /\ 36 \notin frame /\ 0 \notin frame /\ Cardinality(frame) = 9

----------------------------------------------------------------------------
\* C35: in the auto-cycle with loop() called for ever, a clock that keeps
\* advancing and no abort, every phase of flightPattern is always
\* eventually left (the sequencer is infinitely often outside each phase),
\* flightPattern returns true infinitely often, and each of the four
\* patterns is selected infinitely often.
C35_Progress ==
    /\ \A p \in 0 .. 4 : []<>(phase # p)
    /\ []<>(returned = "true")
    /\ \A m \in 0 .. NUM_PATTERNS - 1 : []<>(autoCycleSubMode = m)

\* a FLIGHT run completes after the scheduler has been through the three
\* timer patterns and has selected FLIGHT again
C35_Witness ==
    /\ returned = "true" /\ autoCycleSubMode = 0 /\ phase = 0
    /\ lastModeChange > 0 /\ ~gotBreak

----------------------------------------------------------------------------
\* f is a frame of pattern m: a FLIGHT frame has eight prop pixels and one
\* tail pixel, the rainbow and the running lights drive every pixel, the
\* theater chase every third one
DocPatternFrame(m, f) ==
    CASE m = 0 -> Cardinality(PropCells(f)) = 8 /\ Cardinality(f \ PropCells(f)) = 1
      [] m = 3 -> \E r \in 0 .. 2 : f = { c \in 0 .. 40 : c % 3 = r }
      [] OTHER -> f = 0 .. 40

\* C36: an iteration of loop() that switches the pattern sets
\* lastModeChange to the value of millis() at the switch and sends out the
\* all-off frame first; the only frame sent out after it in that iteration
\* is one of the newly selected pattern, and it is the frame the strip is
\* left with.
C36_SwitchClearsFrame ==
    [][ (LoopStep /\ autoCycleSubMode' # autoCycleSubMode) =>
          /\ lastModeChange' = clock
          /\ Len(committed') = 2
          /\ committed'[1] = {}
          /\ DocPatternFrame(autoCycleSubMode', committed'[2])
          /\ frame' = committed'[2] ]_vars

\* the switch from the running lights to the theater chase
C36_Witness ==
    /\ returned = "other" /\ autoCycleSubMode = 3 /\ ~gotBreak
    /\ lastModeChange > 0 /\ clock >= lastModeChange + 100
    /\ Len(committed) = 2 /\ committed[1] = {}
    /\ committed[2] = { c \in 0 .. 40 : c % 3 = 2 }

----------------------------------------------------------------------------
\* C37: every frame flightPattern renders has exactly 9 lit pixels among
\* the 41: two in each of the four prop rings and one in the tail, the
\* tail pixel being 36 + tail_pos for the tail position the phase logic of
\* that call left (lit pixels carry normColor, the others are off).
C37_NineLitPixels ==
    [][ (Called /\ shows' = 1) =>
          /\ frame' \subseteq 0 .. 40
          /\ Cardinality(frame') = 9
          /\ \A ring \in 0 .. 3 :
                Cardinality(frame' \cap (9 * ring .. 9 * ring + 8)) = 2
          /\ frame' \cap (36 .. 40) = { 36 + AfterPhaseLogic.tail_pos } ]_vars

\* a spinning frame of TRANSITION_IN with the tail at its third cell
C37_Witness ==
    /\ returned = "false" /\ shows = 1 /\ phase = 1 /\ propDelay < 500
    /\ tail_pos = 2 /\ 38 \in frame /\ Cardinality(frame) = 9
    /\ prop1_angle \in frame /\ (prop1_angle + 4) % 9 \in frame

----------------------------------------------------------------------------
\* C38: the rotor update of a call moves all four props or none of them;
\* in every reachable state prop1_angle = prop4_angle,
\* prop2_angle = prop3_angle and (prop1_angle + prop2_angle) mod 9 = 0.
C38_PropsInStep ==
    /\ []( /\ prop1_angle = prop4_angle
           /\ prop2_angle = prop3_angle
           /\ (prop1_angle + prop2_angle) % 9 = 0 )
    /\ [][ Called =>
             LET s == AfterPhaseLogic
             IN  \/ /\ s.prop1_angle # prop1_angle /\ s.prop2_angle # prop2_angle
                    /\ s.prop3_angle # prop3_angle /\ s.prop4_angle # prop4_angle
                 \/ /\ s.prop1_angle = prop1_angle /\ s.prop2_angle = prop2_angle
                    /\ s.prop3_angle = prop3_angle /\ s.prop4_angle = prop4_angle ]_vars

\* two prop updates after the start: the counter-rotating pairs are at 7
\* and 2
C38_Witness ==
    /\ returned = "false" /\ lastPropUpdate = lastCall /\ breaks = 0
    /\ prop1_angle = 7 /\ prop4_angle = 7
    /\ prop2_angle = 2 /\ prop3_angle = 2

----------------------------------------------------------------------------
----------------------------------------------------------------------------
\* C40: a pattern call that is cut short by gotBreak (a flightPattern call
\* that returns false with the flag set on entry, or a call of rainbow,
\* RunningLights or theaterChaseRainbow entered with the flag set) has
\* cleared gotBreak when it returns.
C40_EarlyExitClearsBreak ==
    [][ (LoopStep /\ gotBreak /\ returned' \in {"false", "other"}) =>
          ~gotBreak' ]_vars

====
